---- MODULE Spec2Model ----
(***************************************************************************)
(* The query cache and the mutation hooks of the product catalog front end *)
(* (src/src/services/productService.ts, src/src/services/categoryService.ts*)
(* and their callers), together with the server they talk to.              *)
(*                                                                         *)
(* A query entry is the state the hooks read and write through the query   *)
(* client: data, status, fetchStatus, isInvalidated.  A fetch request is a *)
(* call of the queryFn that has not returned yet; a cancelled request is   *)
(* still outstanding (getProducts and getCategories do not pass the abort  *)
(* signal to axios) and returns later.  A mutation is one call of mutate() *)
(* of one of the four mutation hooks.                                      *)
(***************************************************************************)
EXTENDS Integers, Sequences, FiniteSets, TLC

VARIABLES db, nextId, categories, queries, selectedCategories,
          filterSelectedCategories, dialog, reqs, muts, fetchErrors

vars == <<db, nextId, categories, queries, selectedCategories,
          filterSelectedCategories, dialog, reqs, muts, fetchErrors>>

\* Bounds of the model.
MaxMut == 1
MaxFormMut == 2
MaxOut == 2
MaxFetchErrors == 1

Absent == <<>>
Some(x) == <<x>>

Range(s) == {s[i] : i \in 1..Len(s)}
Ids(list) == {list[i].id : i \in 1..Len(list)}

\* ---------------------------------------------------------------- query keys
\* useGetProductsQuery: ["products", payload?.categoryIds, payload?.name]; the
\* name filter is held at its initial value "" and left out of the key.
ProductsKey(categoryIds) == <<"products", categoryIds>>
CategoriesKey == <<"categories", <<>>>>
FilterCategory == 2
ProductKeys == {ProductsKey(<<>>), ProductsKey(<<FilterCategory>>)}
Keys == ProductKeys \cup {CategoriesKey}

\* QueryFilters { queryKey: [resource] }: a key matches by prefix.
KeysOf(resource) == {k \in Keys : k[1] = resource}

\* staleTime: Infinity for products, the default 0 for categories.
StaleTimeInfinity(k) == k[1] = "products"

\* ------------------------------------------------------------------- server
CategoryChoices == {{1}, {FilterCategory}}

InitialProducts ==
    << [id |-> 1, name |-> "Old", categories |-> {1}],
       [id |-> 2, name |-> "Old", categories |-> {FilterCategory}] >>

\* GET /api/products with params categoryIds
getProducts(categoryIds) ==
    IF categoryIds = <<>> THEN db
    ELSE SelectSeq(db, LAMBDA p : p.categories \cap Range(categoryIds) # {})

\* GET /api/categories
getCategories == categories

queryFn(k) == IF k[1] = "products" THEN getProducts(k[2]) ELSE getCategories

\* createQueryOptions(params): the key carries params, the queryFn calls
\* getProducts() without them; queryFn is what a call of it returns.
createQueryOptions(params) ==
    [queryKey |-> <<"products", params>>, queryFn |-> getProducts(<<>>)]

\* -------------------------------------------------------------- query state
NewQuery == [data |-> Absent, status |-> "pending", fetchStatus |-> "idle",
             isInvalidated |-> FALSE]

HasData(q) == q.data # Absent

\* A query is stale when it has no data, was invalidated, or its staleTime
\* has passed (never for products, always for categories).
IsStale(k, q) == ~HasData(q) \/ q.isInvalidated \/ ~StaleTimeInfinity(k)

LiveReqs(rs, k) == {r \in rs : r.key = k /\ ~r.cancelled}

\* The first free slot for a request of key k.
Slot(rs, k) == CHOOSE n \in 1..(MaxOut + 1) :
                  /\ \A r \in rs : r.key = k => r.n # n
                  /\ \A j \in 1..(n - 1) : \E r \in rs : r.key = k /\ r.n = j

\* No more than MaxOut requests of one key are outstanding.
WithinBounds(c) == \A r \in c.reqs : r.n <= MaxOut

Request(k, n, q) ==
    [key |-> k, n |-> n, cancelled |-> FALSE, handled |-> FALSE, failed |-> FALSE,
     result |-> <<>>, revert |-> q.status]

\* The client side the hooks act on: the query cache and the outstanding
\* requests.
Client == [queries |-> queries, reqs |-> reqs]

\* Query.fetch without dedup: always issues a new request.
FetchAlways(c, k) ==
    [c EXCEPT !.queries[k].fetchStatus = "fetching",
              !.queries[k].status = IF HasData(c.queries[k]) THEN c.queries[k].status
                                    ELSE "pending",
              !.reqs = c.reqs \cup {Request(k, Slot(c.reqs, k), c.queries[k])}]

\* Query.fetch: a query that is already fetching returns the pending promise,
\* otherwise the queryFn is called once.
Fetch(c, k) ==
    IF c.queries[k].fetchStatus = "fetching" THEN c
    ELSE [c EXCEPT !.queries[k].fetchStatus = "fetching",
                   !.queries[k].status = IF HasData(c.queries[k]) THEN c.queries[k].status
                                         ELSE "pending",
                   !.reqs = c.reqs \cup {Request(k, Slot(c.reqs, k), c.queries[k])}]

\* The dialogs are modal: at most one is open.  "add" and "edit" show an
\* AddEditProductForm (edit with props.product), "delete" the AlertDialog.
NoDialog == [kind |-> "none", id |-> 0]
FormOpen == dialog.kind \in {"add", "edit"}

\* onSuccess and onError run in the promise chain of the mutationFn: from the
\* moment the mutationFn's promise settles until the mutation's result is
\* dispatched, the continuations (the rest of onSuccess after its await of
\* cancelQueries, the dispatch) are microtasks, and no event handler, render
\* effect or response callback of the page runs before they are done.
MacrotaskRunsAnytime == TRUE

MicrotasksDrained ==
    \A i \in 1..Len(muts) : muts[i].pc \in {"mutationFn", "done"}

\* Observers of a key: the Dashboard's useGetProductsQuery on the key of the
\* selected filter; for categories the CategoryFilter of the Dashboard and
\* the useGetCategories of the open AddEditProductForm.
Observers(k) ==
    IF k = CategoriesKey THEN (IF FormOpen THEN 2 ELSE 1)
    ELSE IF k = ProductsKey(selectedCategories) THEN 1 ELSE 0

TypeOK ==
    /\ dialog.kind \in {"none", "add", "edit", "delete"}
    /\ selectedCategories \in {<<>>, <<FilterCategory>>}
    /\ filterSelectedCategories \in {<<>>, <<FilterCategory>>}
    /\ \A k \in Keys : queries[k].fetchStatus \in {"idle", "fetching"}
    /\ \A k \in Keys : queries[k].status \in {"pending", "success", "error"}
    /\ \A r \in reqs : r.n \in 1..MaxOut

\* An observer mounts on key k: it fetches when the query is stale.
Mount(c, k) == IF IsStale(k, c.queries[k]) THEN Fetch(c, k) ELSE c

\* The state after the first render: the Dashboard shows the unfiltered list,
\* its useGetProductsQuery and the CategoryFilter's useGetCategories have
\* mounted and issued their first requests.
Init ==
    /\ db = InitialProducts
    /\ nextId = 3
    /\ categories = <<1, FilterCategory>>
    /\ selectedCategories = <<>>
    /\ filterSelectedCategories = <<>>
    /\ dialog = NoDialog
    /\ LET c0 == [queries |-> [k \in Keys |-> NewQuery], reqs |-> {}]
           c == Mount(Mount(c0, ProductsKey(<<>>)), CategoriesKey)
       IN /\ queries = c.queries
          /\ reqs = c.reqs
    /\ muts = <<>>
    /\ fetchErrors = 0

\* The rows the DataTable of the Dashboard shows.
Rows ==
    LET q == queries[ProductsKey(selectedCategories)]
    IN IF HasData(q) THEN Ids(q.data[1]) ELSE {}

\* handleCategoryChange of the CategoryFilter and of the Dashboard, each on
\* its own list: a selected category is filtered out, another one is added at
\* the end.
Toggle(selected, category) ==
    IF category \in Range(selected)
    THEN SelectSeq(selected, LAMBDA cat : cat # category)
    ELSE Append(selected, category)

\* The categories the user can click in the CategoryFilter: the items of its
\* popover (what useGetCategories holds) and the badges of its own list.
FilterItems ==
    (IF HasData(queries[CategoriesKey]) THEN Range(queries[CategoriesKey].data[1])
     ELSE {}) \cup Range(filterSelectedCategories)

\* Dashboard's setSelectedCategories: useGetProductsQuery moves to the key of
\* the new list; a list equal to the old one changes no key.
setSelectedCategories(cids) ==
    /\ selectedCategories' = cids
    /\ LET c == IF cids = selectedCategories THEN Client
                ELSE Mount(Client, ProductsKey(cids))
       IN /\ WithinBounds(c)
          /\ queries' = c.queries
          /\ reqs' = c.reqs
    /\ UNCHANGED <<db, nextId, categories, dialog, muts, fetchErrors>>

\* CategoryFilter.handleCategoryChange, from an item of the popover or from a
\* badge of the CategoryFilter: the filter toggles the category in its own
\* list and hands the new list to the Dashboard through onCategoryChange.
CategoryFilter_handleCategoryChange(category) ==
    /\ MicrotasksDrained
    /\ dialog = NoDialog
    /\ category \in FilterItems
    /\ filterSelectedCategories' = Toggle(filterSelectedCategories, category)
    /\ setSelectedCategories(Toggle(filterSelectedCategories, category))

\* Dashboard.handleCategoryChange, from a badge of the Dashboard (onRemove):
\* the Dashboard toggles the category in its own list; the CategoryFilter,
\* which does not read the selectedCategories prop, keeps its list.
Dashboard_handleCategoryChange(category) ==
    /\ MicrotasksDrained
    /\ dialog = NoDialog
    /\ category \in Range(selectedCategories)
    /\ setSelectedCategories(Toggle(selectedCategories, category))
    /\ UNCHANGED filterSelectedCategories

\* AddProductModal or the Edit item of a row: the dialog opens and the
\* useGetCategories of its AddEditProductForm mounts.
OpenForm(kind, id) ==
    /\ MicrotasksDrained
    /\ dialog = NoDialog
    /\ dialog' = [kind |-> kind, id |-> id]
    /\ LET c == Mount(Client, CategoriesKey)
       IN /\ WithinBounds(c)
          /\ queries' = c.queries
          /\ reqs' = c.reqs
    /\ UNCHANGED <<db, nextId, categories, selectedCategories,
                   filterSelectedCategories, muts, fetchErrors>>

OpenAdd == OpenForm("add", 0)

OpenEdit == \E id \in Rows : OpenForm("edit", id)

\* The Delete item of a row: the AlertDialog opens.
OpenDelete ==
    /\ MicrotasksDrained
    /\ dialog = NoDialog
    /\ \E id \in Rows : dialog' = [kind |-> "delete", id |-> id]
    /\ UNCHANGED <<db, nextId, categories, queries, selectedCategories,
                   filterSelectedCategories, reqs, muts, fetchErrors>>

\* The mutations of a closed dialog lose their mutate-level callbacks.
Detach(ms) == [i \in 1..Len(ms) |-> [ms[i] EXCEPT !.attached = FALSE]]

\* The dialog is dismissed: its observers leave; a request in flight keeps
\* running.
CloseDialog ==
    /\ MicrotasksDrained
    /\ dialog # NoDialog
    /\ dialog' = NoDialog
    /\ muts' = Detach(muts)
    /\ UNCHANGED <<db, nextId, categories, queries, selectedCategories,
                   filterSelectedCategories, reqs, fetchErrors>>

\* The server answers a GET: the result is what the database holds now.
ServerHandleFetch(r) ==
    /\ ~r.handled
    /\ \E fail \in BOOLEAN :
         /\ fail => fetchErrors < MaxFetchErrors
         /\ fetchErrors' = IF fail THEN fetchErrors + 1 ELSE fetchErrors
         /\ reqs' = (reqs \ {r}) \cup
                    {[r EXCEPT !.handled = TRUE, !.failed = fail,
                               !.result = IF fail THEN <<>> ELSE Some(queryFn(r.key))]}
    /\ UNCHANGED <<db, nextId, categories, queries, selectedCategories,
                   filterSelectedCategories, dialog, muts>>

\* The queryFn's promise settles and writes every time, cancelled or not.
SettleFetchAlways(q, r) ==
    IF r.failed
    THEN [q EXCEPT !.status = "error", !.fetchStatus = "idle"]
    ELSE [q EXCEPT !.data = r.result, !.status = "success", !.fetchStatus = "idle",
                   !.isInvalidated = FALSE]

\* A failure that throws away the data the query held.
SettleFetchClearing(q, r) ==
    IF r.cancelled THEN q
    ELSE IF r.failed
    THEN [q EXCEPT !.data = Absent, !.status = "error", !.fetchStatus = "idle"]
    ELSE [q EXCEPT !.data = r.result, !.status = "success", !.fetchStatus = "idle",
                   !.isInvalidated = FALSE]

\* The queryFn's promise settles.  A cancelled request was already rejected
\* with a CancelledError, so its late result is dropped.  A failure keeps the
\* data the query held.
SettleFetch(q, r) ==
    IF r.cancelled THEN q
    ELSE IF r.failed
    THEN [q EXCEPT !.status = "error", !.fetchStatus = "idle"]
    ELSE [q EXCEPT !.data = r.result, !.status = "success", !.fetchStatus = "idle",
                   !.isInvalidated = FALSE]

FetchSettles(r) ==
    /\ MicrotasksDrained
    /\ r.handled
    /\ queries' = [queries EXCEPT ![r.key] = SettleFetch(@, r)]
    /\ reqs' = reqs \ {r}
    /\ UNCHANGED <<db, nextId, categories, selectedCategories,
                   filterSelectedCategories, dialog, muts, fetchErrors>>

\* ------------------------------------------------------ query client calls
\* The handlers act on the client side extended with the running mutation's
\* log of calls and the toasts it has shown.
Handler(i) == [queries |-> queries, reqs |-> reqs,
               log |-> muts[i].log, toasts |-> muts[i].toasts]

RevertStatus(c, k) ==
    IF LiveReqs(c.reqs, k) = {} THEN c.queries[k].status
    ELSE (CHOOSE r \in LiveReqs(c.reqs, k) : TRUE).revert

\* Query.cancel({ revert: true }) on every key in S that is fetching: the
\* pending promise is rejected and the state from before the fetch restored.
CancelKeys(c, S) ==
    [c EXCEPT !.queries = [k \in Keys |->
                  IF k \in S /\ c.queries[k].fetchStatus = "fetching"
                  THEN [c.queries[k] EXCEPT !.fetchStatus = "idle",
                                            !.status = RevertStatus(c, k)]
                  ELSE c.queries[k]],
              !.reqs = {IF r.key \in S THEN [r EXCEPT !.cancelled = TRUE] ELSE r :
                        r \in c.reqs}]

\* A cancelQueries without a filter: every fetch of every resource is cancelled.
cancelQueriesEverything(c, resource) ==
    [CancelKeys(c, Keys) EXCEPT !.log = Append(@, "cancelQueries")]

\* A cancelQueries that cancels nothing.
cancelQueriesNothing(c, resource) == [c EXCEPT !.log = Append(@, "cancelQueries")]

\* queryClient.cancelQueries(queryFilter)
cancelQueries(c, resource) ==
    [CancelKeys(c, KeysOf(resource)) EXCEPT !.log = Append(@, "cancelQueries")]

\* A setQueriesData that writes what the updater returns, undefined too.
setQueriesDataAlways(c, resource, updated) ==
    [c EXCEPT !.queries = [k \in Keys |->
                  IF k \in KeysOf(resource)
                  THEN [c.queries[k] EXCEPT !.data = updated[k],
                                            !.status = "success",
                                            !.isInvalidated = FALSE]
                  ELSE c.queries[k]],
              !.log = Append(@, "setQueriesData")]

\* queryClient.setQueriesData(queryFilter, updater), with updated[k] the
\* updater's result on the data of key k: an updater that returns undefined
\* leaves the query as it is.
setQueriesData(c, resource, updated) ==
    [c EXCEPT !.queries = [k \in Keys |->
                  IF k \in KeysOf(resource) /\ updated[k] # Absent
                  THEN [c.queries[k] EXCEPT !.data = updated[k],
                                            !.status = "success",
                                            !.isInvalidated = FALSE]
                  ELSE c.queries[k]],
              !.log = Append(@, "setQueriesData")]

\* Query.fetch called for every key in S.
FetchAll(c, S) ==
    [c EXCEPT !.queries = [k \in Keys |-> IF k \in S THEN Fetch(c, k).queries[k]
                                          ELSE c.queries[k]],
              !.reqs = c.reqs \cup UNION {Fetch(c, k).reqs : k \in S}]

\* An invalidation that takes every query of the resource.
predicateAll(q) == TRUE

\* The predicate of the hooks' invalidateQueries calls.
predicate(q) == ~HasData(q)

\* queryClient.invalidateQueries({ queryKey, predicate }): the matching
\* queries are marked invalidated and those with observers are refetched
\* (refetchType 'active', cancelRefetch: a fetch in flight over existing data
\* is cancelled and replaced, a first fetch is joined).
invalidateQueries(c, resource) ==
    LET M == {k \in KeysOf(resource) : predicate(c.queries[k])}
        A == {k \in M : Observers(k) > 0}
        R == {k \in A : HasData(c.queries[k])}
        c1 == [c EXCEPT !.queries = [k \in Keys |->
                   IF k \in M THEN [c.queries[k] EXCEPT !.isInvalidated = TRUE]
                   ELSE c.queries[k]]]
    IN [FetchAll(CancelKeys(c1, R), A) EXCEPT !.log = Append(@, "invalidateQueries")]

\* toast.success("Success", { description })
toastSuccess(c, description) ==
    [c EXCEPT !.toasts = Append(@, [kind |-> "success", title |-> "Success",
                                    description |-> Some(description)]),
              !.log = Append(@, "toast")]

\* A description that is never taken from the error.
NoErrorMessage(error) == Absent

\* error.response?.data.message
ErrorMessage(error) == IF error.response THEN error.message ELSE Absent

\* An onError that shows no toast.
toastErrorSilent(c, error) == c

\* toast.error("Failed", { description: error.response?.data.message })
toastError(c, error) ==
    [c EXCEPT !.toasts = Append(@, [kind |-> "error", title |-> "Failed",
                                    description |-> ErrorMessage(error)]),
              !.log = Append(@, "toast")]

\* ------------------------------------------------------------- the updaters
\* An updater that puts the new product at the end.
AddProductUpdaterAppend(oldData, newProduct) ==
    IF oldData = Absent THEN oldData ELSE Some(oldData[1] \o <<newProduct>>)

\* useMutateAddProduct: data: [newProduct.data, ...oldData.data]
AddProductUpdater(oldData, newProduct) ==
    IF oldData = Absent THEN oldData ELSE Some(<<newProduct>> \o oldData[1])

\* An updater that merges: the name of the response, the rest of the old
\* record.
EditProductUpdaterMerge(oldData, newProduct) ==
    IF oldData = Absent THEN oldData
    ELSE Some([j \in 1..Len(oldData[1]) |->
                 IF oldData[1][j].id = newProduct.id
                 THEN [oldData[1][j] EXCEPT !.name = newProduct.name]
                 ELSE oldData[1][j]])

\* useMutateEditProduct: the product with the id of the response is replaced
EditProductUpdater(oldData, newProduct) ==
    IF oldData = Absent THEN oldData
    ELSE Some([j \in 1..Len(oldData[1]) |->
                 IF oldData[1][j].id = newProduct.id THEN newProduct ELSE oldData[1][j]])

\* useMutateDeleteProduct: the products of the response are filtered out
DeleteProductUpdater(oldData, deletedProduct) ==
    IF oldData = Absent THEN oldData
    ELSE Some(SelectSeq(oldData[1], LAMBDA p : p.id \notin Ids(deletedProduct)))

\* useAddCategory: data: [...oldData.data, ...newCategory.data]
AddCategoryUpdater(oldData, newCategory) ==
    IF oldData = Absent THEN oldData ELSE Some(oldData[1] \o newCategory)

\* ------------------------------------------------------------- the handlers
ResourceOf(hook) == IF hook = "addCategory" THEN "categories" ELSE "products"

ProductHooks == {"addProduct", "editProduct", "deleteProduct"}

\* The updater of the hook's setQueriesData call applied to the data of every
\* key of the hook's resource.
Updated(c, hook, data) ==
    [k \in KeysOf(ResourceOf(hook)) |->
        CASE hook = "addProduct" -> AddProductUpdater(c.queries[k].data, data)
          [] hook = "editProduct" -> EditProductUpdater(c.queries[k].data, data)
          [] hook = "deleteProduct" -> DeleteProductUpdater(c.queries[k].data, data)
          [] hook = "addCategory" -> AddCategoryUpdater(c.queries[k].data, data)]

\* onSuccess of the four hooks up to its suspension:
\* await queryClient.cancelQueries(queryFilter)
onSuccessAwait(c, hook) == cancelQueries(c, ResourceOf(hook))

\* useMutateAddProduct.onSuccess after the await
AddProductOnSuccess(c, data) ==
    invalidateQueries(
        toastSuccess(
            setQueriesData(c, "products", Updated(c, "addProduct", data)),
            "Product added successfully"),
        "products")

\* useMutateEditProduct.onSuccess after the await
EditProductOnSuccess(c, data) ==
    invalidateQueries(
        toastSuccess(
            setQueriesData(c, "products", Updated(c, "editProduct", data)),
            "Product updated successfully"),
        "products")

\* useMutateDeleteProduct.onSuccess after the await
DeleteProductOnSuccess(c, data) ==
    invalidateQueries(
        toastSuccess(
            setQueriesData(c, "products", Updated(c, "deleteProduct", data)),
            "Product deleted successfully"),
        "products")

\* useAddCategory.onSuccess after the await: no toast
AddCategoryOnSuccess(c, data) ==
    invalidateQueries(
        setQueriesData(c, "categories", Updated(c, "addCategory", data)),
        "categories")

onSuccess(c, hook, data) ==
    CASE hook = "addProduct" -> AddProductOnSuccess(c, data)
      [] hook = "editProduct" -> EditProductOnSuccess(c, data)
      [] hook = "deleteProduct" -> DeleteProductOnSuccess(c, data)
      [] hook = "addCategory" -> AddCategoryOnSuccess(c, data)

\* An onError that also invalidates the resource.
onErrorInvalidating(c, hook, error) ==
    invalidateQueries(toastError(c, error), ResourceOf(hook))

\* onError of the product hooks: toast.error; of useAddCategory: console.log
onError(c, hook, error) ==
    IF hook \in ProductHooks THEN toastError(c, error) ELSE c

\* ---------------------------------------------------------------- mutations
NoError == [response |-> FALSE, message |-> Absent]

\* What axios rejects with: no response at all, a response without a message,
\* or the server's message.
Errors == {NoError,
           [response |-> TRUE, message |-> Absent],
           [response |-> TRUE, message |-> Some("rejected")]}

\* isLoading of useQuery: the first fetch is in flight.
IsLoading(q) == q.status = "pending" /\ q.fetchStatus = "fetching"

\* A submit button that a pending mutation does not disable.
CanSubmitWhilePending ==
    /\ FormOpen
    /\ ~IsLoading(queries[CategoriesKey])

\* AddEditProductForm: the submit button is disabled while useGetCategories
\* is loading and while the form's add or edit mutation is pending.
CanSubmit ==
    /\ FormOpen
    /\ ~IsLoading(queries[CategoriesKey])
    /\ \A i \in 1..Len(muts) :
         ~(muts[i].attached /\ muts[i].status = "pending"
           /\ muts[i].hook \in {"addProduct", "editProduct"})

\* snap records what the cache held when mutate was called; it is kept while
\* the mutation is pending.
NoSnap == [k \in Keys |-> Absent]

\* pc is where the mutation's promise chain stands: "mutationFn" while the
\* request is out, "onSuccess" while onSuccess is suspended at its await,
\* "settling" when the hook's callback has returned and the result is not
\* dispatched yet, "done" afterwards.  context is what onMutate returned: the
\* hooks define no onMutate, it stays undefined.
Mutation(hook, variables) ==
    [hook |-> hook, variables |-> variables, attached |-> TRUE, status |-> "pending",
     pc |-> "mutationFn", failureCount |-> 0, context |-> Absent,
     outcome |-> "none", error |-> NoError, data |-> <<>>,
     log |-> <<"mutationFn">>, toasts |-> <<>>,
     snap |-> [k \in Keys |-> queries[k].data]]

\* mutate(variables): the mutation is created and its mutationFn called.
Mutate(hook, variables) ==
    /\ MicrotasksDrained
    /\ muts' = Append(muts, Mutation(hook, variables))
    /\ UNCHANGED <<db, nextId, categories, queries, selectedCategories,
                   filterSelectedCategories, dialog, reqs, fetchErrors>>

\* AddEditProductForm.onSubmit without props.product
SubmitAdd ==
    /\ CanSubmit
    /\ dialog.kind = "add"
    /\ \E cs \in CategoryChoices :
         Mutate("addProduct", [id |-> 0, name |-> "New", categories |-> cs])

\* AddEditProductForm.onSubmit with props.product
SubmitEdit ==
    /\ CanSubmit
    /\ dialog.kind = "edit"
    /\ \E cs \in CategoryChoices :
         Mutate("editProduct", [id |-> dialog.id, name |-> "New", categories |-> cs])

\* The Delete button of the AlertDialog (TableAction), disabled while the
\* row's delete mutation is pending.
ConfirmDelete ==
    /\ dialog.kind = "delete"
    /\ \A i \in 1..Len(muts) :
         ~(muts[i].attached /\ muts[i].status = "pending"
           /\ muts[i].hook = "deleteProduct")
    /\ Mutate("deleteProduct", [id |-> dialog.id, name |-> "", categories |-> {}])

\* The Add Category button in the form's popover: the popover's trigger is
\* disabled while useGetCategories is loading, the button while the form's
\* add-category mutation is pending.
ClickAddCategory ==
    /\ FormOpen
    /\ ~IsLoading(queries[CategoriesKey])
    /\ \A i \in 1..Len(muts) :
         ~(muts[i].attached /\ muts[i].status = "pending" /\ muts[i].hook = "addCategory")
    /\ Mutate("addCategory", [id |-> 0, name |-> "New", categories |-> {}])

Find(id) == CHOOSE j \in 1..Len(db) : db[j].id = id

\* DELETE /api/product: the response lists the deleted product (what onSuccess
\* reads) or the remaining products (what deleteProduct documents).
DeleteResponses(id) ==
    {<<db[Find(id)]>>, SelectSeq(db, LAMBDA p : p.id # id)}

Respond(i, data) ==
    muts' = [muts EXCEPT ![i].outcome = "ok", ![i].data = data]

\* The server handles the request of mutation i, or the request fails.
ServerHandleMutation(i) ==
    LET m == muts[i]
        v == m.variables
    IN
    /\ m.pc = "mutationFn"
    /\ m.outcome = "none"
    /\ \/ /\ \E e \in Errors : muts' = [muts EXCEPT ![i].outcome = "failed", ![i].error = e]
          /\ UNCHANGED <<db, nextId, categories>>
       \/ /\ m.hook = "addProduct"
          /\ LET p == [id |-> nextId, name |-> v.name, categories |-> v.categories]
             IN /\ db' = Append(db, p)
                /\ nextId' = nextId + 1
                /\ Respond(i, <<p>>)
          /\ UNCHANGED categories
       \/ /\ m.hook = "editProduct"
          /\ v.id \in Ids(db)
          /\ db' = [db EXCEPT ![Find(v.id)] = v]
          /\ Respond(i, <<v>>)
          /\ UNCHANGED <<nextId, categories>>
       \/ /\ m.hook = "deleteProduct"
          /\ v.id \in Ids(db)
          /\ db' = SelectSeq(db, LAMBDA p : p.id # v.id)
          /\ \E data \in DeleteResponses(v.id) : Respond(i, data)
          /\ UNCHANGED <<nextId, categories>>
       \/ /\ m.hook = "addCategory"
          /\ categories' = Append(categories, Len(categories) + 1)
          /\ Respond(i, <<Len(categories) + 1>>)
          /\ UNCHANGED <<db, nextId>>
    /\ UNCHANGED <<queries, selectedCategories,
                   filterSelectedCategories, dialog, reqs, fetchErrors>>

\* The argument the hook's onSuccess works with: newProduct.data is one
\* product, deletedProduct.data and newCategory.data are lists.
ResponseData(m) ==
    IF m.hook \in {"addProduct", "editProduct"} THEN m.data[1] ELSE m.data

\* The mutate-level onSuccess: props.onClose() of AddEditProductForm.onSubmit,
\* setIsOpenDeleteProductModal(false) of TableAction; it runs only while the
\* component that called mutate is still mounted.
ClosesDialog(m) ==
    m.outcome = "ok" /\ m.attached /\ m.hook \in ProductHooks

\* A retry of every failed call, once.
retryOnce(failureCount) == failureCount < 1

\* The hooks pass no retry option to useMutation: a failure is not retried.
retry(failureCount) == FALSE

\* The response callback of mutation i can run: the answer is there and no
\* promise chain is in progress.
CanSettle(i) ==
    /\ MicrotasksDrained
    /\ muts[i].pc = "mutationFn"
    /\ muts[i].outcome # "none"
    /\ muts[i].outcome = "ok"
       => WithinBounds(onSuccess(onSuccessAwait(Handler(i), muts[i].hook),
                                 muts[i].hook, ResponseData(muts[i])))

\* onSuccess of mutation i is suspended at its await.
Suspended(i) == muts[i].pc = "onSuccess"

\* The mutationFn's promise settles.  On success onSuccess runs up to its
\* await; on failure onError runs to its end.
MutationFnSettles(i) ==
    LET m == muts[i]
        ok == m.outcome = "ok"
        h == [Handler(i) EXCEPT !.log = Append(@, IF ok THEN "onSuccess" ELSE "onError")]
        c == IF ok THEN onSuccessAwait(h, m.hook) ELSE onError(h, m.hook, m.error)
    IN
    /\ CanSettle(i)
    /\ IF ~ok /\ retry(m.failureCount)
       THEN /\ muts' = [muts EXCEPT ![i].failureCount = @ + 1,
                                    ![i].outcome = "none",
                                    ![i].log = Append(@, "mutationFn")]
            /\ UNCHANGED <<queries, reqs>>
       ELSE /\ queries' = c.queries
            /\ reqs' = c.reqs
            /\ muts' = [muts EXCEPT ![i].pc = IF ok THEN "onSuccess" ELSE "settling",
                                    ![i].log = c.log,
                                    ![i].toasts = c.toasts]
    /\ UNCHANGED <<db, nextId, categories, selectedCategories,
                   filterSelectedCategories, dialog, fetchErrors>>

\* The promise of cancelQueries has resolved: the rest of onSuccess runs
\* (setQueriesData, toast, invalidateQueries).
OnSuccessResumes(i) ==
    LET m == muts[i]
        c == onSuccess(Handler(i), m.hook, ResponseData(m))
    IN
    /\ Suspended(i)
    /\ queries' = c.queries
    /\ reqs' = c.reqs
    /\ muts' = [muts EXCEPT ![i].pc = "settling",
                            ![i].log = c.log,
                            ![i].toasts = c.toasts]
    /\ UNCHANGED <<db, nextId, categories, selectedCategories,
                   filterSelectedCategories, dialog, fetchErrors>>

\* A dispatch that reports every mutation as a success.
DispatchedAsSuccess(m) ==
    [m EXCEPT !.status = "success", !.pc = "done", !.data = <<>>, !.snap = NoSnap]

\* The mutation's result is dispatched: status success or error.
Dispatched(m) ==
    [m EXCEPT !.status = IF m.outcome = "ok" THEN "success" ELSE "error",
              !.pc = "done", !.data = <<>>, !.snap = NoSnap]

\* The hook's callbacks have returned: the result is dispatched and the
\* mutate-level callback runs.
Dispatch(i) ==
    LET m == muts[i]
        settled == [muts EXCEPT ![i] = Dispatched(m)]
    IN
    /\ m.pc = "settling"
    /\ IF ClosesDialog(m)
       THEN /\ dialog' = NoDialog
            /\ muts' = Detach(settled)
       ELSE /\ dialog' = dialog
            /\ muts' = settled
    /\ UNCHANGED <<db, nextId, categories, queries, selectedCategories,
                   filterSelectedCategories, reqs, fetchErrors>>

Next ==
    \/ CategoryFilter_handleCategoryChange(FilterCategory)
    \/ Dashboard_handleCategoryChange(FilterCategory)
    \/ OpenAdd
    \/ OpenEdit
    \/ OpenDelete
    \/ CloseDialog
    \/ \E r \in reqs : ServerHandleFetch(r)
    \/ \E r \in reqs : FetchSettles(r)
    \/ Len(muts) < MaxMut /\ SubmitAdd
    \/ Len(muts) < MaxMut /\ SubmitEdit
    \/ Len(muts) < MaxMut /\ ConfirmDelete
    \/ Len(muts) < MaxMut /\ ClickAddCategory
    \/ \E i \in 1..Len(muts) : ServerHandleMutation(i)
    \/ \E i \in 1..Len(muts) : MutationFnSettles(i)
    \/ \E i \in 1..Len(muts) : OnSuccessResumes(i)
    \/ \E i \in 1..Len(muts) : Dispatch(i)

Spec == Init /\ [][Next]_vars

\* The product form alone: the add or the edit dialog is opened, submitted,
\* dismissed, and submitted again, while the fetches and the mutations of the
\* form run; the filter, the delete dialog and the Add Category button are
\* left alone.
FormNext ==
    \/ OpenAdd
    \/ OpenEdit
    \/ CloseDialog
    \/ \E r \in reqs : ServerHandleFetch(r)
    \/ \E r \in reqs : FetchSettles(r)
    \/ Len(muts) < MaxFormMut /\ SubmitAdd
    \/ Len(muts) < MaxFormMut /\ SubmitEdit
    \/ \E i \in 1..Len(muts) : ServerHandleMutation(i)
    \/ \E i \in 1..Len(muts) : MutationFnSettles(i)
    \/ \E i \in 1..Len(muts) : OnSuccessResumes(i)
    \/ \E i \in 1..Len(muts) : Dispatch(i)

FormSpec == Init /\ [][FormNext]_vars

\* The network answers every request of a mutation (with a response or an
\* error), and the promise chain of a mutation runs on: the event loop takes
\* the response callback and drains the microtasks.  The weak fairness of
\* MutationFnSettles and OnSuccessResumes is written out, with their guards
\* CanSettle and Suspended for ENABLED.
FairSpec ==
    /\ Spec
    /\ WF_vars(\E i \in 1..Len(muts) : ServerHandleMutation(i))
    /\ WF_vars(\E i \in 1..Len(muts) : Dispatch(i))
    /\ \/ []<>(\A i \in 1..Len(muts) : ~CanSettle(i))
       \/ []<><<\E i \in 1..Len(muts) : MutationFnSettles(i)>>_vars
    /\ \/ []<>(\A i \in 1..Len(muts) : ~Suspended(i))
       \/ []<><<\E i \in 1..Len(muts) : OnSuccessResumes(i)>>_vars

\* ------------------------------------------------------------------ claims
Pos(log, e) ==
    IF \E j \in 1..Len(log) : log[j] = e
    THEN CHOOSE j \in 1..Len(log) : log[j] = e /\ \A l \in 1..(j - 1) : log[l] # e
    ELSE 0

Names(list, id) == {list[j].name : j \in {l \in 1..Len(list) : list[l].id = id}}

\* C1 (as claimed): when the network call of a mutation fails, every entry of
\* the affected resource holds, once the mutation has settled, the data it
\* held when mutate was called.
C1_RollbackRoundTrip ==
    [][\A i \in 1..Len(muts) :
         (muts[i].status = "pending" /\ muts'[i].status = "error")
         => \A k \in KeysOf(ResourceOf(muts[i].hook)) :
              queries'[k].data = muts[i].snap[k]]_vars

\* C2 (as claimed): the cache write of a mutation precedes its network call;
\* no mutation has called its mutationFn without having written the cache.
C2_WriteBeforeRequest ==
    \A i \in 1..Len(muts) :
        Pos(muts[i].log, "mutationFn") > 0
        => /\ Pos(muts[i].log, "setQueriesData") > 0
           /\ Pos(muts[i].log, "setQueriesData") < Pos(muts[i].log, "mutationFn")

\* C3: when the request of a cancelled fetch returns, the entry of its key is
\* left exactly as it was (data, status, fetchStatus, isInvalidated).
C3_CancelledFetchDiscarded ==
    [][\A r \in reqs :
         (r.cancelled /\ r.handled /\ r \notin reqs')
         => queries'[r.key] = queries[r.key]]_vars

\* C3 witness: a cancelled request has been answered with a result that differs
\* from what the entry holds, and is about to return.
C3_Witness ==
    \E r \in reqs : /\ r.cancelled /\ r.handled /\ ~r.failed
                    /\ r.result # queries[r.key].data

\* C4: for every key at most one fetch that was not cancelled is in flight,
\* and the key's fetchStatus is "fetching" exactly when there is one.
C4_AtMostOneFetchPerKey ==
    \A k \in Keys :
        /\ Cardinality(LiveReqs(reqs, k)) <= 1
        /\ (queries[k].fetchStatus = "fetching") <=> (LiveReqs(reqs, k) # {})

\* C4 witness: the form's useGetCategories mounted while the first fetch of
\* the CategoryFilter was still in flight, and one request is outstanding.
C4_Witness ==
    /\ FormOpen
    /\ muts = <<>>
    /\ fetchErrors = 0
    /\ ~HasData(queries[CategoriesKey])
    /\ queries[CategoriesKey].fetchStatus = "fetching"
    /\ Cardinality({r \in reqs : r.key = CategoriesKey}) = 1

\* C5: once an edit has committed, no products entry shows the edited product
\* under another name than the new one, whatever fetch was in flight.
C5_CommittedEditNotOverwritten ==
    \A i \in 1..Len(muts) :
        (muts[i].hook = "editProduct" /\ muts[i].status = "success")
        => \A k \in ProductKeys :
             HasData(queries[k])
             => Names(queries[k].data[1], muts[i].variables.id) \subseteq {"New"}

\* C5 witness: the edit committed while a fetch of the key was in flight; the
\* cancelled fetch, answered with the old record, is still outstanding and the
\* entry shows the new name.
C5_Witness ==
    \E i \in 1..Len(muts), k \in ProductKeys, r \in reqs :
        /\ muts[i].hook = "editProduct" /\ muts[i].status = "success"
        /\ HasData(queries[k])
        /\ Names(queries[k].data[1], muts[i].variables.id) = {"New"}
        /\ r.key = k /\ r.cancelled /\ r.handled /\ ~r.failed
        /\ Names(r.result[1], muts[i].variables.id) = {"Old"}

\* C6 (as claimed): a delete removes the product from every products entry
\* when it is submitted, the entries do not change when the server confirms,
\* and a failure restores what the entries held before.
C6_DeleteOptimisticInAllEntries ==
    [][\A i \in 1..Len(muts') :
         muts'[i].hook = "deleteProduct"
         => /\ i > Len(muts)
               => \A k \in ProductKeys :
                    HasData(queries'[k])
                    => muts'[i].variables.id \notin Ids(queries'[k].data[1])
            /\ (i <= Len(muts) /\ muts[i].pc = "onSuccess"
                /\ muts'[i].pc = "settling")
               => \A k \in ProductKeys : queries'[k].data = queries[k].data
            /\ (i <= Len(muts) /\ muts[i].status = "pending"
                /\ muts'[i].status = "error")
               => \A k \in ProductKeys : queries'[k].data = muts[i].snap[k]]_vars

\* C7: when a create commits, no request is issued for a key of the resource
\* that held data (the patched entries), and a request is issued for every
\* observed key of the resource that held none.
C7_CreateRefetchesOnlyEmptyKeys ==
    [][\A i \in 1..Len(muts) :
         (muts[i].hook \in {"addProduct", "addCategory"}
          /\ muts[i].pc = "onSuccess" /\ muts'[i].pc = "settling")
         => \A k \in KeysOf(ResourceOf(muts[i].hook)) :
              LET issuedNow == {r \in reqs' \ reqs : r.key = k /\ ~r.cancelled}
              IN /\ HasData(queries[k]) => issuedNow = {}
                 /\ (~HasData(queries[k]) /\ Observers(k) > 0)
                    => (issuedNow # {} /\ queries'[k].fetchStatus = "fetching")]_vars

\* C7 witness: an add has committed; one products entry holds the new product
\* and has no fetch, another had no data and is being refetched.
C7_Witness ==
    \E i \in 1..Len(muts), k1 \in ProductKeys, k2 \in ProductKeys :
        /\ muts[i].hook = "addProduct" /\ muts[i].status = "success"
        /\ HasData(queries[k1])
        /\ Len(queries[k1].data[1]) > 0
        /\ queries[k1].data[1][1].name = "New"
        /\ {r \in reqs : r.key = k1} = {}
        /\ ~HasData(queries[k2])
        /\ queries[k2].isInvalidated
        /\ queries[k2].fetchStatus = "fetching"

Settled(m) == m.status \in {"success", "error"}

ToastKind(m) == IF m.outcome = "ok" THEN "success" ELSE "error"

\* C8 (as claimed): every settled mutation has shown exactly one toast, a
\* success toast when it committed and an error toast when it failed.
C8_OneNotificationPerMutation ==
    \A i \in 1..Len(muts) :
        Settled(muts[i])
        => /\ Len(muts[i].toasts) = 1
           /\ muts[i].toasts[1].kind = ToastKind(muts[i])

\* C8 (amended): every add, edit or delete of a product whose callback has
\* returned has shown exactly one toast of the kind of its outcome; an
\* add-category mutation shows none; a mutation whose request is out or whose
\* onSuccess is suspended has shown none.
C8_OneNotificationPerProductMutation ==
    \A i \in 1..Len(muts) :
        IF muts[i].pc \in {"settling", "done"} /\ muts[i].hook \in ProductHooks
        THEN /\ Len(muts[i].toasts) = 1
             /\ muts[i].toasts[1].kind = ToastKind(muts[i])
        ELSE muts[i].toasts = <<>>

\* C8 witness: a product mutation has failed and shown its one error toast.
C8_Witness ==
    \E i \in 1..Len(muts) :
        /\ muts[i].hook \in ProductHooks
        /\ muts[i].status = "error"
        /\ Len(muts[i].toasts) = 1

\* C9: the error toast of a failed product mutation has the title "Failed",
\* and its description is the server's message when the error carries one and
\* nothing else otherwise.
C9_FailureMessage ==
    \A i \in 1..Len(muts) :
        (muts[i].status = "error" /\ muts[i].hook \in ProductHooks)
        => \E j \in 1..Len(muts[i].toasts) :
             LET t == muts[i].toasts[j]
             IN /\ t.kind = "error"
                /\ t.title = "Failed"
                /\ muts[i].error.message # Absent => t.description = muts[i].error.message
                /\ muts[i].error.message = Absent => t.description = Absent

\* C9 witness: a product mutation failed without a response and its toast
\* carries the title alone.
C9_Witness ==
    \E i \in 1..Len(muts) :
        /\ muts[i].status = "error"
        /\ ~muts[i].error.response
        /\ Len(muts[i].toasts) = 1
        /\ muts[i].toasts[1].title = "Failed"
        /\ muts[i].toasts[1].description = Absent

\* C10: invalidateQueries is called only in the onSuccess of a mutation whose
\* request succeeded, after that mutation's setQueriesData, and never by a
\* mutation that failed.
C10_InvalidateOnlyAfterCommit ==
    \A i \in 1..Len(muts) :
        LET p == Pos(muts[i].log, "invalidateQueries")
        IN /\ p > 0 => /\ muts[i].outcome = "ok"
                       /\ Pos(muts[i].log, "onSuccess") > 0
                       /\ Pos(muts[i].log, "setQueriesData") > 0
                       /\ Pos(muts[i].log, "setQueriesData") < p
           /\ muts[i].status = "error" => p = 0

\* C10 witness: a committed mutation has written the cache and invalidated.
C10_Witness ==
    \E i \in 1..Len(muts) :
        /\ muts[i].status = "success"
        /\ Pos(muts[i].log, "invalidateQueries") > Pos(muts[i].log, "setQueriesData")
        /\ Pos(muts[i].log, "setQueriesData") > 0

Count(log, e) == Cardinality({j \in 1..Len(log) : log[j] = e})

\* C11: a mutation starts pending with its request out; its status changes
\* once, from pending to success or to error, when its result is dispatched;
\* a mutation that committed ran onSuccess once and never onError, one that
\* failed ran onError once and never onSuccess; a settled mutation changes
\* no more; and every submitted mutation is eventually settled.
C11_MutationLifecycle ==
    /\ [][\A i \in 1..Len(muts') :
            LET n == muts'[i]
            IN /\ i > Len(muts) => n.status = "pending" /\ n.pc = "mutationFn"
               /\ n.status = "success"
                  => /\ n.outcome = "ok"
                     /\ Count(n.log, "onSuccess") = 1
                     /\ Count(n.log, "onError") = 0
               /\ n.status = "error"
                  => /\ n.outcome = "failed"
                     /\ Count(n.log, "onError") = 1
                     /\ Count(n.log, "onSuccess") = 0
               /\ i <= Len(muts)
                  => /\ n.status # muts[i].status
                        => /\ muts[i].status = "pending"
                           /\ muts[i].pc = "settling"
                           /\ n.pc = "done"
                     /\ Settled(muts[i])
                        => /\ n.status = muts[i].status
                           /\ n.pc = "done"
                           /\ n.log = muts[i].log
                           /\ n.toasts = muts[i].toasts]_vars
    /\ \A i \in 1..MaxMut :
          (Len(muts) >= i) ~> (Len(muts) >= i /\ Settled(muts[i]))

\* C11 witness: one mutation has settled as committed after its onSuccess
\* ran in its two parts.
C11_Witness ==
    \E i \in 1..Len(muts) :
        /\ muts[i].status = "success"
        /\ muts[i].pc = "done"
        /\ Pos(muts[i].log, "setQueriesData") > Pos(muts[i].log, "cancelQueries")

ReqIds(rs) == {<<r.key, r.n>> : r \in rs}

\* What the client holds of a mutation (the answer of the server to its
\* request is not yet the client's).
ClientSide(m) == <<m.hook, m.variables, m.pc, m.status, m.log, m.toasts, m.attached>>

C13_SnapshotRetained ==
    \A i \in 1..Len(muts) :
        (Count(muts[i].log, "setQueriesData") > 0 /\ ~Settled(muts[i]))
        => muts[i].context # Absent

\* The step in which the onSuccess of mutation i writes the cache.
Patches(i) == i <= Len(muts) /\ Suspended(i) /\ muts'[i].pc = "settling"

\* C14 (as claimed): a create (add product, add category) leaves in every
\* entry of its resource that holds data the new record followed by the
\* previous list.
C14_CreatePrepends ==
    [][\A i \in 1..Len(muts) :
         (Patches(i) /\ muts[i].hook \in {"addProduct", "addCategory"})
         => \A k \in KeysOf(ResourceOf(muts[i].hook)) :
              HasData(queries[k])
              => queries'[k].data = Some(muts[i].data \o queries[k].data[1])]_vars

\* C14 (amended): add product leaves the new product followed by the previous
\* list; add category leaves the previous list followed by the categories of
\* the response.
C14_CreatePrependsProductAppendsCategory ==
    [][\A i \in 1..Len(muts) :
         Patches(i)
         => \A k \in KeysOf(ResourceOf(muts[i].hook)) :
              HasData(queries[k])
              => /\ muts[i].hook = "addProduct"
                    => queries'[k].data = Some(muts[i].data \o queries[k].data[1])
                 /\ muts[i].hook = "addCategory"
                    => queries'[k].data = Some(queries[k].data[1] \o muts[i].data)]_vars

\* C14 witness: an add product has written a list that was not empty: the new
\* product is first and the old ones follow.
C14_Witness ==
    \E i \in 1..Len(muts), k \in ProductKeys :
        /\ muts[i].hook = "addProduct"
        /\ muts[i].pc = "settling"
        /\ muts[i].outcome = "ok"
        /\ HasData(queries[k])
        /\ Len(queries[k].data[1]) > 1
        /\ queries[k].data[1][1] = muts[i].data[1]
        /\ queries[k].data[1][2].id = 1

\* C15: when an edit writes the cache, every entry that holds data keeps its
\* length and order; the record with the id of the server's record becomes
\* the server's record, all fields, and every other record is unchanged.
C15_UpdateReplacesRecord ==
    [][\A i \in 1..Len(muts) :
         (Patches(i) /\ muts[i].hook = "editProduct")
         => \A k \in ProductKeys :
              HasData(queries[k])
              => LET old == queries[k].data[1]
                     new == queries'[k].data[1]
                     rec == muts[i].data[1]
                 IN /\ HasData(queries'[k])
                    /\ Len(new) = Len(old)
                    /\ \A j \in 1..Len(old) :
                         new[j] = IF old[j].id = rec.id THEN rec ELSE old[j]]_vars

\* C15 witness: an edit has written a list of two records; the edited one is
\* the server's record with other categories than before, the other is as it
\* was.
C15_Witness ==
    \E i \in 1..Len(muts), k \in ProductKeys :
        /\ muts[i].hook = "editProduct"
        /\ muts[i].pc = "settling"
        /\ muts[i].outcome = "ok"
        /\ HasData(queries[k])
        /\ Len(queries[k].data[1]) = 2
        /\ queries[k].data[1][1] = muts[i].data[1]
        /\ queries[k].data[1][1].categories # InitialProducts[1].categories
        /\ queries[k].data[1][2] = InitialProducts[2]

\* C16 (as claimed): when a delete of product X writes the cache, every entry
\* that holds data loses the record with id X and keeps all others in their
\* order, whatever list the response carries.
C16_DeleteRemovesExactlyTheProduct ==
    [][\A i \in 1..Len(muts) :
         (Patches(i) /\ muts[i].hook = "deleteProduct")
         => \A k \in ProductKeys :
              HasData(queries[k])
              => queries'[k].data =
                   Some(SelectSeq(queries[k].data[1],
                                  LAMBDA p : p.id # muts[i].variables.id))]_vars

\* C17 (as claimed): when an add or an edit of a product commits, every
\* products entry that is observed and holds data without the committed
\* record is marked stale, and no request is issued for it in that step.
C17_StaleWithoutRefetch ==
    [][\A i \in 1..Len(muts) :
         (Patches(i) /\ muts[i].hook \in {"addProduct", "editProduct"})
         => \A k \in ProductKeys :
              (/\ Observers(k) > 0
               /\ HasData(queries[k])
               /\ HasData(queries'[k])
               /\ muts[i].data[1] \notin Range(queries'[k].data[1]))
              => /\ queries'[k].isInvalidated
                 /\ {r \in reqs' : r.key = k} = {r \in reqs : r.key = k}]_vars

\* C18: the setQueriesData of a mutation leaves every entry of the resource
\* that has no data as it is (data absent, status, fetchStatus, isInvalidated
\* unchanged); over the whole patch step such an entry still has no data, and
\* its status changes only to pending, by the refetch that follows.
C18_WriteSkipsAbsentEntries ==
    [][\A i \in 1..Len(muts) :
         Patches(i)
         => LET h == Handler(i)
                res == ResourceOf(muts[i].hook)
                w == setQueriesData(h, res, Updated(h, muts[i].hook, ResponseData(muts[i])))
            IN \A k \in KeysOf(res) :
                 ~HasData(queries[k])
                 => /\ Updated(h, muts[i].hook, ResponseData(muts[i]))[k] = Absent
                    /\ w.queries[k] = queries[k]
                    /\ ~HasData(queries'[k])
                    /\ queries'[k].status # queries[k].status
                       => /\ queries'[k].status = "pending"
                          /\ queries'[k].fetchStatus = "fetching"]_vars

\* C18 witness: a mutation has written the cache while an entry of its
\* resource that nobody observes had no data: the entry is still without
\* data and pending.
C18_Witness ==
    \E i \in 1..Len(muts), k \in Keys :
        /\ k \in KeysOf(ResourceOf(muts[i].hook))
        /\ muts[i].pc = "settling"
        /\ Count(muts[i].log, "setQueriesData") = 1
        /\ Observers(k) = 0
        /\ ~HasData(queries[k])
        /\ queries[k].status = "pending"
        /\ queries[k].fetchStatus = "idle"

\* C19: when the fetch of a key fails (and was not cancelled), the entry goes
\* to status error, idle, and keeps the data it held; no other entry changes
\* and no mutation shows a toast.
C19_FetchErrorKeepsData ==
    [][\A r \in reqs :
         (r.handled /\ r.failed /\ ~r.cancelled
          /\ <<r.key, r.n>> \notin ReqIds(reqs'))
         => /\ queries'[r.key].status = "error"
            /\ queries'[r.key].fetchStatus = "idle"
            /\ queries'[r.key].data = queries[r.key].data
            /\ \A k \in Keys \ {r.key} : queries'[k] = queries[k]
            /\ muts' = muts]_vars

\* C19 witness: a refetch failed on an entry that held data: the entry is in
\* status error and still holds the data.
C19_Witness ==
    \E k \in Keys :
        /\ queries[k].status = "error"
        /\ queries[k].fetchStatus = "idle"
        /\ HasData(queries[k])
        /\ fetchErrors = 1
        /\ \A i \in 1..Len(muts) : muts[i].toasts = <<>>

\* C20: a mutation calls its mutationFn exactly once, whatever the outcome:
\* no failure is counted as a retry, and a mutation that failed has made its
\* one call, run onError and stopped.
C20_NoRetry ==
    \A i \in 1..Len(muts) :
        /\ Count(muts[i].log, "mutationFn") = 1
        /\ muts[i].failureCount = 0
        /\ muts[i].outcome = "failed" /\ muts[i].pc # "mutationFn"
           => Pos(muts[i].log, "onError") = 2

\* C20 witness: a mutation has failed and ended in error after one call.
C20_Witness ==
    \E i \in 1..Len(muts) :
        /\ muts[i].status = "error"
        /\ muts[i].pc = "done"
        /\ Count(muts[i].log, "mutationFn") = 1
        /\ Count(muts[i].log, "onError") = 1

\* C21: a mutation touches only entries of its own resource: in every step in
\* which a mutation is submitted or its promise chain moves on (cancel, patch,
\* invalidate, toast, dispatch), every entry of another resource keeps data,
\* status, fetchStatus and isInvalidated, and the requests of its key are the
\* same, none added, none cancelled.
C21_OnlyOwnResource ==
    [][\A i \in 1..Len(muts') :
         (i > Len(muts) \/ ClientSide(muts'[i]) # ClientSide(muts[i]))
         => \A k \in Keys \ KeysOf(ResourceOf(muts'[i].hook)) :
              /\ queries'[k] = queries[k]
              /\ {r \in reqs' : r.key = k} = {r \in reqs : r.key = k}]_vars

\* C21 witness: an add product has cancelled, patched and invalidated while a
\* fetch of the categories was in flight; that fetch is still in flight and
\* not cancelled.
C21_Witness ==
    \E i \in 1..Len(muts), r \in reqs :
        /\ muts[i].hook = "addProduct"
        /\ muts[i].pc = "settling"
        /\ Count(muts[i].log, "cancelQueries") = 1
        /\ Count(muts[i].log, "invalidateQueries") = 1
        /\ r.key = CategoriesKey /\ ~r.cancelled
        /\ queries[CategoriesKey].fetchStatus = "fetching"

\* C22 (as claimed): no cached products list holds two records with the same
\* id.
C22_NoDuplicateIds ==
    \A k \in ProductKeys :
        HasData(queries[k])
        => Cardinality(Ids(queries[k].data[1])) = Len(queries[k].data[1])

\* C23 (as claimed): what is fetched for a products key is the result of
\* GET /api/products with the filter of that key, for the keys of
\* useGetProductsQuery and for the keys of createQueryOptions: the queryFn of
\* a key returns the products of the key's categories.
C23_FetchedWithParamsOfKey ==
    \A categoryIds \in {<<>>, <<FilterCategory>>} :
        /\ queryFn(ProductsKey(categoryIds)) = getProducts(categoryIds)
        /\ createQueryOptions(categoryIds).queryKey[2] = categoryIds
        /\ createQueryOptions(categoryIds).queryFn = getProducts(categoryIds)

\* C25 (as claimed): the Dashboard's selected categories, which make the
\* products query key, equal the CategoryFilter's own selected categories,
\* and neither list holds a category twice.
C25_SelectionsAgree ==
    /\ selectedCategories = filterSelectedCategories
    /\ Cardinality(Range(selectedCategories)) = Len(selectedCategories)
    /\ Cardinality(Range(filterSelectedCategories)) = Len(filterSelectedCategories)

\* The add and edit mutations of the open form that are in flight.
InFlightOfForm(ms) ==
    {i \in 1..Len(ms) : /\ ms[i].attached
                        /\ ms[i].status = "pending"
                        /\ ms[i].hook \in {"addProduct", "editProduct"}}

\* C24: of one product form at most one add or edit mutation is in flight: a
\* submit starts a mutation only when none of the form is pending; when a
\* mutation of the form settles, the dialog closes if it succeeded and stays
\* as it is if it failed; and a dialog that closes without a mutation
\* settling was dismissed by the user.
C24_OneSubmitPerForm ==
    [][/\ Cardinality(InFlightOfForm(muts')) <= 1
       /\ Len(muts') > Len(muts) => InFlightOfForm(muts) = {}
       /\ \A i \in 1..Len(muts) :
            /\ (muts[i].status = "pending" /\ muts'[i].status = "error")
               => dialog' = dialog
            /\ (muts[i].status = "pending" /\ muts'[i].status = "success"
                /\ muts[i].attached)
               => dialog' = NoDialog
       /\ (dialog # NoDialog /\ dialog' = NoDialog)
          => \/ \E i \in 1..Len(muts) :
                  /\ muts[i].attached
                  /\ muts[i].status = "pending" /\ muts'[i].status = "success"
             \/ muts' = Detach(muts)]_vars

\* C24 witness: the first submit of the add form failed and left the dialog
\* open; the second submit of the same form is in flight.
C24_Witness ==
    /\ dialog.kind = "add"
    /\ Len(muts) = 2
    /\ muts[1].hook = "addProduct" /\ muts[1].attached /\ muts[1].status = "error"
    /\ muts[2].hook = "addProduct" /\ muts[2].attached /\ muts[2].status = "pending"

====
